---- MODULE Spec2Model ----
(***************************************************************************)
(* Model of the conversational contact-discovery backend (ewya):           *)
(*   ConversationsService  src/src/conversations/conversations.service.ts  *)
(*   SearchService         src/src/search/search.service.ts                *)
(*   SearchService, older  src/unnamed/part_001                            *)
(*   UsersService          src/unnamed/part_008                            *)
(* Every await of the services is one step of an invocation; the storage   *)
(* collaborator, the interpretation provider and the enrichment provider   *)
(* answer each outbound call with any of the outcomes they can produce.    *)
(***************************************************************************)
EXTENDS Integers, Sequences, FiniteSets, TLC

\* ------------------------------------------------------------------ bounds
MaxProfiles == 2      \* longest targetProfiles list the provider output carries
MaxOps == 2           \* service invocations ever started
MaxMessages == 6      \* longest transcript a turn may still begin on, plus a turn's 3 entries
MaxStack == 2         \* nested re-invocations the call stack holds

\* ------------------------------------------------------- JavaScript values
Undefined == "<undefined>"    \* an absent (undefined / null) string field
NoScore == -1                 \* an absent numeric field
NumberValue == "<number>"     \* a field holding a non-zero number where text is expected
NoDoc == [exists |-> FALSE]   \* findOne(...) === null

Truthy(s) == s # Undefined /\ s # ""
StrOr(a, b) == IF Truthy(a) THEN a ELSE b          \* a || b on strings
NumOr(a, b) == IF a # NoScore /\ a # 0 THEN a ELSE b   \* a || b on numbers

AbsentList == [present |-> FALSE, items |-> <<>>]
ListOf(s) == [present |-> TRUE, items |-> s]
ListOr(a, b) == IF a.present THEN a ELSE b         \* an array is always truthy

RECURSIVE SeqFilter(_, _)
SeqFilter(s, keep) ==
    IF s = <<>> THEN <<>>
    ELSE IF keep[1] THEN <<Head(s)>> \o SeqFilter(Tail(s), Tail(keep))
         ELSE SeqFilter(Tail(s), Tail(keep))

\* [..].filter(Boolean)
FilterTruthy(s) == SeqFilter(s, [i \in 1..Len(s) |-> Truthy(s[i])])

RECURSIVE Join(_, _)
Join(s, sep) ==
    IF s = <<>> THEN ""
    ELSE IF Len(s) = 1 THEN s[1]
    ELSE s[1] \o sep \o Join(Tail(s), sep)

WhiteSpace == {" ", "\n", "\t", "\r"}

RECURSIVE TrimLeft(_)
TrimLeft(s) ==
    IF Len(s) > 0 /\ SubSeq(s, 1, 1) \in WhiteSpace
    THEN TrimLeft(SubSeq(s, 2, Len(s))) ELSE s

RECURSIVE TrimRight(_)
TrimRight(s) ==
    IF Len(s) > 0 /\ SubSeq(s, Len(s), Len(s)) \in WhiteSpace
    THEN TrimRight(SubSeq(s, 1, Len(s) - 1)) ELSE s

Trim(s) == TrimRight(TrimLeft(s))

StartsWith(s, prefix) ==
    Len(s) >= Len(prefix) /\ SubSeq(s, 1, Len(prefix)) = prefix

EndsWith(s, suffix) ==
    Len(s) >= Len(suffix) /\ SubSeq(s, Len(s) - Len(suffix) + 1, Len(s)) = suffix

\* String.prototype.substring(0, n)
Substring0(s, n) == SubSeq(s, 1, IF n < Len(s) THEN n ELSE Len(s))

RECURSIVE Flatten(_)
Flatten(ss) == IF ss = <<>> THEN <<>> ELSE Head(ss) \o Flatten(Tail(ss))

\* ---------------------------------------------------------- Profile Normalizer
\* One entry of a provider emails / phones list.
StrItem(s) == [t |-> "string", s |-> s, email |-> Undefined, number |-> Undefined,
               value |-> Undefined, raw_number |-> Undefined]
ObjItem(e, n, v, r) == [t |-> "object", s |-> Undefined, email |-> e, number |-> n,
                        value |-> v, raw_number |-> r]
OtherItem == [t |-> "other", s |-> Undefined, email |-> Undefined,
              number |-> Undefined, value |-> Undefined, raw_number |-> Undefined]

extractItem(item) ==
    IF item.t = "string" THEN item.s
    ELSE IF item.t = "object" THEN
        IF Truthy(item.email) THEN item.email
        ELSE IF Truthy(item.number) THEN item.number
        ELSE IF Truthy(item.value) THEN item.value
        ELSE IF Truthy(item.raw_number) THEN item.raw_number
        ELSE Undefined
    ELSE Undefined

\* typeof v === 'string' && v.length > 0
IsNonEmptyString(v) == v \notin {Undefined, NumberValue, ""}

extractStringArray(data) ==
    IF ~data.present THEN <<>>
    ELSE LET mapped == [i \in 1..Len(data.items) |-> extractItem(data.items[i])]
         IN  SeqFilter(mapped, [i \in 1..Len(mapped) |-> IsNonEmptyString(mapped[i])])

buildProfileSummary(profile) ==
    LET title == StrOr(profile.current_title, StrOr(profile.title, "Professional"))
        company == StrOr(profile.current_employer, StrOr(profile.employer, ""))
        location == StrOr(profile.location,
                          StrOr(Join(FilterTruthy(<<profile.city, profile.region>>), ", "), ""))
        industry == StrOr(profile.industry, "")
        parts == <<title>>
                 \o (IF Truthy(company) THEN <<"at " \o company>> ELSE <<>>)
                 \o (IF Truthy(location) THEN <<"in " \o location>> ELSE <<>>)
                 \o (IF Truthy(industry) THEN <<"| " \o industry>> ELSE <<>>)
    IN  Join(parts, " ")

\* profileId as a bug would have it: a fresh id whatever the provider sent.
profileIdAlwaysFresh(profile, now, rnd) ==
    "rr-" \o ToString(now) \o "-" \o rnd

\* profile.id?.toString() || `rr-${Date.now()}-${Math.random()}`
profileId(profile, now, rnd) ==
    IF profile.id # NoScore THEN ToString(profile.id)
    ELSE "rr-" \o ToString(now) \o "-" \o rnd

\* now, rnd: the values Date.now() and Math.random() yield in this call
mapRocketReachProfile(profile, now, rnd) ==
    [ id |-> profileId(profile, now, rnd),
      name |-> StrOr(profile.name,
                 StrOr(Join(FilterTruthy(<<profile.first_name, profile.last_name>>), " "), "")),
      firstName |-> StrOr(profile.first_name, ""),
      lastName |-> StrOr(profile.last_name, ""),
      title |-> StrOr(profile.current_title, StrOr(profile.title, "")),
      company |-> StrOr(profile.current_employer, StrOr(profile.employer, "")),
      location |-> StrOr(IF profile.location = Undefined THEN Undefined
                         ELSE Trim(profile.location),
                    StrOr(Join(FilterTruthy(<<profile.city, profile.region, profile.country>>),
                               ", "), "")),
      industry |-> StrOr(profile.industry, ""),
      emails |-> extractStringArray(ListOr(profile.emails, ListOr(profile.telesign_emails, ListOf(<<>>)))),
      phones |-> extractStringArray(ListOr(profile.phones, ListOr(profile.telesign_phones, ListOf(<<>>)))),
      linkedInUrl |-> StrOr(profile.linkedin_url, StrOr(profile.li_url, "")),
      profileImageUrl |-> StrOr(profile.profile_pic, StrOr(profile.photo_url, "")),
      relevanceScore |-> NumOr(profile.relevance, 90),
      summary |-> buildProfileSummary(profile) ]

\* The older SearchService's normalizer.
legacyMapRocketReachProfile(profile, now, rnd) ==
    [ id |-> IF profile.id # NoScore THEN ToString(profile.id)
             ELSE "rr-" \o ToString(now) \o "-" \o rnd,
      name |-> StrOr(profile.name, ""),
      firstName |-> StrOr(profile.first_name, ""),
      lastName |-> StrOr(profile.last_name, ""),
      title |-> StrOr(profile.current_title, ""),
      company |-> StrOr(profile.current_employer, ""),
      location |-> StrOr(profile.location, ""),
      industry |-> StrOr(profile.industry, ""),
      emails |-> IF profile.emails.present THEN profile.emails.items ELSE <<>>,
      phones |-> IF profile.phones.present THEN profile.phones.items ELSE <<>>,
      linkedInUrl |-> StrOr(profile.linkedin_url, ""),
      profileImageUrl |-> StrOr(profile.profile_pic, ""),
      relevanceScore |-> 90,
      summary |-> StrOr(profile.current_title, "Professional") \o " at "
                  \o StrOr(profile.current_employer, "Unknown Company") ]

\* ------------------------------------------------------- Enrichment Client
\* mockContact as a bug would have it: no contact channels.
mockContactNoChannels(profile, index, now, withTime) ==
    [ id |-> "mock-" \o ToString(index),
      name |-> StrOr(profile.name, "Professional " \o ToString(index + 1)),
      title |-> profile.role, company |-> profile.company, location |-> profile.location,
      industry |-> profile.industry, emails |-> <<>>, phones |-> <<>>,
      linkedInUrl |-> "", profileImageUrl |-> "",
      relevanceScore |-> NumOr(profile.relevanceScore, 90),
      summary |-> "", firstName |-> "", lastName |-> "" ]

\* targetProfiles.map((profile, index) => ...) without a provider key
mockContact(profile, index, now, withTime) ==
    [ id |-> IF withTime THEN "mock-" \o ToString(now) \o "-" \o ToString(index)
             ELSE "mock-" \o ToString(index),
      name |-> StrOr(profile.name, "Professional " \o ToString(index + 1)),
      title |-> profile.role,
      company |-> profile.company,
      location |-> profile.location,
      industry |-> profile.industry,
      emails |-> <<"professional" \o ToString(index + 1) \o "@example.com">>,
      phones |-> <<"+1-555-0" \o ToString(100 + index)>>,
      linkedInUrl |-> "https://linkedin.com/in/professional" \o ToString(index + 1),
      profileImageUrl |-> "",
      relevanceScore |-> NumOr(profile.relevanceScore, 90),
      summary |-> "Experienced " \o StrOr(profile.role, "professional") \o " at "
                  \o StrOr(profile.company, "industry-leading company"),
      firstName |-> "",
      lastName |-> "" ]

mockContacts(targetProfiles, now, withTime) ==
    [i \in 1..Len(targetProfiles) |-> mockContact(targetProfiles[i], i - 1, now, withTime)]

\* the catch of the enrichment-level try: placeholder contacts
fallbackContact(profile, index, now) ==
    [ id |-> "fallback-" \o ToString(now) \o "-" \o ToString(index),
      name |-> StrOr(profile.name, "Professional " \o ToString(index + 1)),
      title |-> profile.role,
      company |-> profile.company,
      location |-> profile.location,
      industry |-> profile.industry,
      emails |-> <<>>,
      phones |-> <<>>,
      linkedInUrl |-> "",
      profileImageUrl |-> "",
      relevanceScore |-> NumOr(profile.relevanceScore, 50),
      summary |-> StrOr(profile.role, "Professional") \o " at " \o StrOr(profile.company, "Unknown"),
      firstName |-> "",
      lastName |-> "" ]

\* ---------------------------------------------------------- Result Composer
\* formatResults as a bug would have it: "professionals" whatever the count.
formatResultsAlwaysPlural(svc, aiResult, contacts) ==
    IF Len(contacts) = 0
    THEN "I searched for \"" \o aiResult.interpretation
         \o "\" but couldn't find any matching professionals at the moment. Try refining your search with more specific criteria."
    ELSE "I found " \o ToString(Len(contacts)) \o " professionals matching \""
         \o aiResult.interpretation \o "\". Here are the results with verified contact information:"

formatResults(svc, aiResult, contacts) ==
    LET count == Len(contacts)
        plural == IF count > 1 THEN "s" ELSE ""
    IN  IF svc = "conversations" THEN
            IF count = 0
            THEN "I searched for \"" \o aiResult.interpretation
                 \o "\" but couldn't find any matching professionals at the moment. Try refining your search with more specific criteria, or ask me to look in a different location or industry."
            ELSE "I found " \o ToString(count) \o " professional" \o plural \o " matching \""
                 \o aiResult.interpretation \o "\". Here are the results with verified contact information:"
        ELSE
            IF count = 0
            THEN (IF svc = "search"
                  THEN "I searched for \"" \o aiResult.interpretation \o "\" but"
                  ELSE "I understand you're looking for " \o aiResult.interpretation \o ", but I")
                 \o " couldn't find any matching professionals at the moment. Try refining your search with more specific criteria."
            ELSE "I found " \o ToString(count) \o " professional" \o plural
                 \o " matching your search. " \o aiResult.interpretation
                 \o ". Here are the top results with verified contact information."

suggestedActionsFor(contacts) ==
    IF Len(contacts) > 0
    THEN <<"Send follow-up to all", "Save all contacts", "Refine search", "Export contacts">>
    ELSE <<"Try a different search", "Broaden your criteria">>


\* ---------------------------------------------------- Interpretation Client
\* What JSON.parse yields: null, or an object whose targetProfiles is a list or absent.
JsonNull == [type |-> "null", interpretation |-> Undefined, targetProfiles |-> AbsentList,
             searchStrategy |-> Undefined]
JsonObject(interp, profiles) ==
    [type |-> "object", interpretation |-> interp, targetProfiles |-> profiles,
     searchStrategy |-> "title + location search"]

\* The target profiles the interpretation provider answers with: profile i of a list.
ProfileAt(i) ==
    CASE i % 3 = 1 -> [name |-> "", role |-> "Real Estate Agent", company |-> "",
                       location |-> "Dubai, UAE", industry |-> "Real Estate",
                       relevanceScore |-> 95]
      [] i % 3 = 2 -> [name |-> "Jane Doe", role |-> Undefined, company |-> "Acme Realty",
                       location |-> Undefined, industry |-> Undefined,
                       relevanceScore |-> NoScore]
      [] OTHER     -> [name |-> Undefined, role |-> "Property Broker", company |-> Undefined,
                       location |-> "Dubai", industry |-> "Real Estate",
                       relevanceScore |-> 0]

ProfileList(k) == [i \in 1..k |-> ProfileAt(i)]

InterpretationPhrase == "real estate agents in Dubai"

\* The provider's output texts, and the values JSON.parse gives for them.
NullText == "null"
NoProfilesText == "{\"interpretation\":\"real estate agents in Dubai\"}"
ListText(k) == "{\"interpretation\":\"real estate agents in Dubai\",\"targetProfiles\":[" \o ToString(k) \o "]}"
GarbageText == "Sorry, I can't help with that."

JsonParse(text) ==
    IF text = NullText THEN [ok |-> TRUE, value |-> JsonNull, message |-> ""]
    ELSE IF text = NoProfilesText
    THEN [ok |-> TRUE, value |-> JsonObject(InterpretationPhrase, AbsentList), message |-> ""]
    ELSE IF \E k \in 0..MaxProfiles : text = ListText(k)
    THEN [ok |-> TRUE,
          value |-> JsonObject(InterpretationPhrase,
                      ListOf(ProfileList(CHOOSE k \in 0..MaxProfiles : text = ListText(k)))),
          message |-> ""]
    ELSE [ok |-> FALSE, value |-> JsonNull,
          message |-> "Unexpected token " \o SubSeq(text, 1, 1) \o " in JSON at position 0"]

\* A markdown code fence; the backquote is no character of a TLA+ string, so the
\* fence is written with three apostrophes.
Fence == "'''"

\* content.trim(), then if it starts with a fence: drop the leading fence, an
\* optional "json" and white space, drop white space and a fence at the end, trim
StripFences(content) ==
    LET c0 == Trim(content)
    IN  IF ~StartsWith(c0, Fence) THEN c0
        ELSE LET c1 == SubSeq(c0, 4, Len(c0))
                 c2 == IF StartsWith(c1, "json") \/ StartsWith(c1, "JSON")
                       THEN SubSeq(c1, 5, Len(c1)) ELSE c1
                 c3 == TrimLeft(c2)
                 c4 == IF EndsWith(c3, Fence)
                       THEN TrimRight(SubSeq(c3, 1, Len(c3) - 3)) ELSE c3
             IN  Trim(c4)

\* for (item of response.data.output) for (contentItem of item.content) content += text
RECURSIVE ExtractSegments(_)
ExtractSegments(content) ==
    IF content = <<>> THEN ""
    ELSE (IF Head(content).type = "output_text" THEN Head(content).text ELSE "")
         \o ExtractSegments(Tail(content))

RECURSIVE ExtractText(_)
ExtractText(output) ==
    IF output = <<>> THEN ""
    ELSE (IF Head(output).type = "message" THEN ExtractSegments(Head(output).content) ELSE "")
         \o ExtractText(Tail(output))

\* The outbound interpretation call's answers: a rejected request, or a response
\* body (output for the Responses API, choice for the chat completions API).
AiError(apiMessage, message) ==
    [kind |-> "error", apiMessage |-> apiMessage, message |-> message,
     output |-> <<>>, choice |-> ""]
AiOutput(segments) ==
    [kind |-> "ok", apiMessage |-> Undefined, message |-> "",
     output |-> <<[type |-> "reasoning", content |-> <<>>],
                  [type |-> "message",
                   content |-> [i \in 1..Len(segments) |->
                                  [type |-> "output_text", text |-> segments[i]]]]>>,
     choice |-> Join(segments, "")]

AiResponses ==
    { AiError(Undefined, "timeout of 30000ms exceeded"),
      AiError("Rate limit reached", "Request failed with status code 429"),
      AiOutput(<<GarbageText>>),
      AiOutput(<<NullText>>),
      AiOutput(<<NoProfilesText>>),
      AiOutput(<<Fence \o "json\n", ListText(1), "\n" \o Fence>>) }
    \cup { AiOutput(<<ListText(k)>>) : k \in 0..MaxProfiles }

\* The input sent to the model: the query, prefixed with the recent turns.
BuildInput(query, conversationHistory) ==
    IF Len(conversationHistory) > 1
    THEN LET n == Len(conversationHistory)
             recentHistory == SubSeq(conversationHistory, IF n > 6 THEN n - 5 ELSE 1, n)
             lines == [i \in 1..Len(recentHistory) |->
                         recentHistory[i].role \o ": "
                         \o Substring0(recentHistory[i].content, 200)]
         IN  "Conversation context:\n" \o Join(lines, "\n")
             \o "\n\nCurrent user query: " \o query
    ELSE query

\* [ok, value] on success, [~ok, message] for the Error thrown
parseQueryWithAI(svc, resp) ==
    IF resp.kind = "error"
    THEN [ok |-> FALSE, value |-> JsonNull,
          message |-> IF svc = "legacy" THEN "Failed to parse query with AI"
                      ELSE "Failed to parse query with AI: "
                           \o StrOr(resp.apiMessage, resp.message)]
    ELSE LET parsed == IF svc = "legacy" THEN JsonParse(resp.choice)
                       ELSE JsonParse(StripFences(ExtractText(resp.output)))
         IN  IF parsed.ok THEN parsed
             ELSE [ok |-> FALSE, value |-> JsonNull,
                   message |-> IF svc = "legacy" THEN "Failed to parse query with AI"
                               ELSE "Failed to parse query with AI: " \o parsed.message]


\* ------------------------------------------------------ Enrichment provider
RawBase ==
    [id |-> NoScore, name |-> Undefined, first_name |-> Undefined, last_name |-> Undefined,
     current_title |-> Undefined, title |-> Undefined, current_employer |-> Undefined,
     employer |-> Undefined, location |-> Undefined, city |-> Undefined,
     region |-> Undefined, country |-> Undefined, industry |-> Undefined,
     emails |-> AbsentList, telesign_emails |-> AbsentList, phones |-> AbsentList,
     telesign_phones |-> AbsentList, linkedin_url |-> Undefined, li_url |-> Undefined,
     profile_pic |-> Undefined, photo_url |-> Undefined, relevance |-> NoScore]

Raw1 == [RawBase EXCEPT !.id = 101, !.name = "Aisha Khan",
           !.current_title = "Real Estate Agent", !.current_employer = "Emaar",
           !.location = " Dubai, UAE ", !.industry = "Real Estate",
           !.emails = ListOf(<<ObjItem("a@b.com", Undefined, Undefined, Undefined),
                              StrItem("c@d.com"),
                              ObjItem(Undefined, "x", Undefined, Undefined)>>),
           !.phones = ListOf(<<ObjItem(Undefined, "+971500000001", Undefined, Undefined)>>),
           !.linkedin_url = "https://linkedin.com/in/aisha"]
Raw2 == [RawBase EXCEPT !.id = 102, !.first_name = "Omar", !.last_name = "Said",
           !.title = "Broker", !.employer = "Damac", !.city = "Dubai", !.country = "UAE",
           !.telesign_emails = ListOf(<<StrItem("o@damac.com")>>),
           !.telesign_phones = ListOf(<<ObjItem(Undefined, Undefined, Undefined, "0501")>>),
           !.relevance = 0]
Raw3 == [RawBase EXCEPT !.id = 0, !.name = "Lina Haddad", !.relevance = 75,
           !.emails = ListOf(<<>>), !.telesign_emails = ListOf(<<StrItem("l@x.com")>>)]

\* A record whose phone entries are a string, an object with a numeric number
\* next to a textual raw_number, an entry of another type and an empty string.
Raw4 == [RawBase EXCEPT !.id = 104, !.name = "Maya Chen",
           !.phones = ListOf(<<StrItem("+442071234567"),
                              ObjItem(Undefined, NumberValue, Undefined, "+14155551234"),
                              OtherItem, StrItem("")>>),
           !.emails = ListOf(<<ObjItem("", Undefined, "m@chen.io", Undefined)>>)]

\* The answers of one provider sub-query: a rejected request, or response.data.
RrError == [kind |-> "error", profiles |-> AbsentList]
RrOk(profiles) == [kind |-> "ok", profiles |-> profiles]
SubQueryResponses == {RrError, RrOk(AbsentList), RrOk(ListOf(<<Raw1, Raw2, Raw3>>))}

\* Date.now() and Math.random() as seen by one call
Times == {1000, 2000}
Rands == {"0.25", "0.75"}

mapProfiles(svc, profiles, now, rnd) ==
    [i \in 1..Len(profiles) |->
        IF svc = "legacy" THEN legacyMapRocketReachProfile(profiles[i], now, rnd)
        ELSE mapRocketReachProfile(profiles[i], now, rnd)]

\* ------------------------------------------------------------------- state
Users == {"u1", "u2"}
ConvId(n) == "c" \o ToString(n)
ConvIds == {ConvId(1)}
\* ids a caller may name: the created ones and one that never exists
CallerConvIds == ConvIds \cup {"c0"}
LongMessage == "Find me senior backend engineers in Berlin who have worked at fintech startups for at least five years"
Messages == {"Find real estate agents in Dubai", LongMessage}
SearchQueries == {"Find real estate agents in Dubai"}
StorageError == "MongoNetworkError: connection closed"

VARIABLES
    convs,              \* conversationModel: id -> document or NoDoc
    history,            \* searchHistoryModel: the stored records, oldest first
    apiCalls,           \* userModel: userId -> apiCallsCount
    app,                \* the application that is deployed: the current one, or
                        \* the older one (SearchService of part_001, no conversations)
    rocketreachApiKey,  \* ROCKETREACH_API_KEY as read at construction
    nextConv,           \* number of the next conversation document
    nextHist,           \* number of the next history record
    ops,                \* invocations started so far
    saved,              \* contactModel: the saved contacts, as (userId, contactId) records
    inv,                \* the invocation in flight: its locals and its position
    other               \* a second request's invocation, suspended at one of its awaits

vars == <<convs, history, apiCalls, app, rocketreachApiKey, nextConv, nextHist, ops, saved, inv, other>>

NoResult == [contacts |-> <<>>, message |-> "", totalResults |-> -1]
NoFollowUp == [subject |-> Undefined, body |-> "", channel |-> ""]
NoOutcome == [kind |-> "none", status |-> 0, message |-> "", dto |-> NoDoc,
              flag |-> FALSE, result |-> NoResult, followUp |-> NoFollowUp]
Thrown(status, message) == [NoOutcome EXCEPT !.kind = "thrown", !.status = status,
                                             !.message = message]
IdleInv ==
    [op |-> "none", svc |-> "none", pc |-> "idle", userId |-> "", convId |-> "",
     message |-> "", doc |-> NoDoc, pre |-> NoDoc, aiResult |-> JsonNull,
     contacts |-> <<>>, i |-> 0, depth |-> 0, input |-> "", formatted |-> "",
     aiCalls |-> 0, subQueries |-> 0, reinvocations |-> 0, historyWrites |-> 0,
     charged |-> FALSE, enriched |-> FALSE, responses |-> <<>>, preHistory |-> <<>>,
     errorFrom |-> "none", error |-> "", saves |-> 0, outcome |-> NoOutcome,
     historyId |-> 0, contactId |-> "", preCalls |-> [u \in Users |-> 0],
     entropy |-> <<>>]

Init ==
    /\ convs = [c \in CallerConvIds |-> NoDoc]
    /\ history = <<>>
    /\ apiCalls = [u \in Users |-> 0]
    /\ app \in {"current", "legacy"}
    /\ rocketreachApiKey \in {"", "rr-key"}
    /\ nextConv = 1
    /\ nextHist = 1
    /\ ops = 0
    /\ saved = {}
    /\ inv = IdleInv
    /\ other = IdleInv

\* FindOne as a bug would have it: the owner is not part of the filter.
FindOneAnyOwner(store, conversationId, userId) == store[conversationId]

\* conversationModel.findOne({ _id, userId })
FindOne(store, conversationId, userId) ==
    IF store[conversationId].exists /\ store[conversationId].userId = userId
    THEN store[conversationId] ELSE NoDoc

mapToDto(id, conversation) ==
    [exists |-> TRUE, id |-> id, title |-> conversation.title,
     messages |-> conversation.messages, contactCount |-> conversation.contactCount,
     followUpCount |-> conversation.followUpCount, isArchived |-> conversation.isArchived]

WelcomeMessage ==
    [role |-> "assistant",
     content |-> "Hello! I'm your AI-powered lead finder. Tell me what kind of professionals or contacts you're looking for, and I'll search for verified contact details.\n\nFor example, try:\n- \"Find real estate agents in Dubai\"\n- \"Tech recruiters in London\"\n- \"Marketing agency founders in NYC\"",
     contacts |-> <<>>,
     suggestedActions |-> <<"Real estate agents in Dubai", "Tech recruiters in London",
                            "Marketing agencies in NYC">>]

Started(op, svc, userId, convId, message) ==
    [IdleInv EXCEPT !.op = op, !.svc = svc, !.userId = userId, !.convId = convId,
                    !.message = message, !.pre = convs[convId], !.preHistory = history,
                    !.preCalls = apiCalls]


\* ------------------------------------------------- Conversation Orchestrator
TypeErrorMap == "Cannot read properties of undefined (reading 'map')"
TypeErrorNull == "Cannot read properties of null (reading 'interpretation')"
StackOverflow == "Maximum call stack size exceeded"

\* UserMessage as a bug would have it: the user turn carries suggested actions.
UserMessageWithActions(message) ==
    [role |-> "user", content |-> message, contacts |-> <<>>,
     suggestedActions |-> <<"Try again">>]

UserMessage(message) ==
    [role |-> "user", content |-> message, contacts |-> <<>>, suggestedActions |-> <<>>]

\* ErrorMessage as a bug would have it: a fixed apology that drops the reason.
ErrorMessageGeneric(errorMessage) ==
    [role |-> "assistant",
     content |-> "I encountered an issue while searching. Please try again or rephrase your request.",
     contacts |-> <<>>,
     suggestedActions |-> <<"Try again", "Rephrase your search">>]

ErrorMessage(errorMessage) ==
    [role |-> "assistant",
     content |-> "I encountered an issue while searching: " \o errorMessage
                 \o ". Please try again or rephrase your request.",
     contacts |-> <<>>,
     suggestedActions |-> <<"Try again", "Rephrase your search">>]

\* DeriveTitle as a bug would have it: a message of exactly 60 characters is cut too.
DeriveTitleFrom60(message) ==
    IF Len(message) >= 60 THEN Substring0(message, 57) \o "..." ELSE message

\* message.length > 60 ? message.substring(0, 57) + '...' : message
DeriveTitle(message) ==
    IF Len(message) > 60 THEN Substring0(message, 57) \o "..." ELSE message

UserMessageCount(messages) ==
    Cardinality({i \in 1..Len(messages) : messages[i].role = "user"})

\* Failed as a bug would have it: sendMessage rethrows instead of absorbing.
FailedRethrow(r, stage, errorMessage) ==
    [r EXCEPT !.errorFrom = stage, !.error = errorMessage, !.pc = "done",
              !.outcome = Thrown(500, IF r.op = "sendMessage" THEN errorMessage
                                      ELSE "Search failed: " \o errorMessage)]

\* Failed as a bug would have it: searchContacts answers with an empty result.
FailedEmptyResult(r, stage, errorMessage) ==
    IF r.op = "sendMessage"
    THEN [r EXCEPT !.doc.messages = Append(@, ErrorMessage(errorMessage)),
                   !.errorFrom = stage, !.error = errorMessage, !.pc = "catchsave"]
    ELSE [r EXCEPT !.errorFrom = stage, !.error = errorMessage, !.pc = "done",
                   !.outcome = [NoOutcome EXCEPT !.kind = "returned",
                                  !.result = [contacts |-> <<>>, message |-> errorMessage,
                                              totalResults |-> 0]]]

\* A throw inside the try of the operation r, at the given stage: the catch of
\* sendMessage appends the error turn and saves; the catch of searchContacts
\* rethrows as HttpException 500.
Failed(r, stage, errorMessage) ==
    IF r.op = "sendMessage"
    THEN [r EXCEPT !.doc.messages = Append(@, ErrorMessage(errorMessage)),
                   !.errorFrom = stage, !.error = errorMessage, !.pc = "catchsave"]
    ELSE [r EXCEPT !.errorFrom = stage, !.error = errorMessage, !.pc = "done",
                   !.outcome = Thrown(500, "Search failed: " \o errorMessage)]

\* Enriched as a bug would have it: contactCount is set, not added to.
EnrichedCountOverwritten(r, contacts) ==
    LET content == formatResults(r.svc, r.aiResult, contacts)
    IN  IF r.op = "sendMessage"
        THEN [r EXCEPT !.contacts = contacts, !.formatted = content, !.enriched = TRUE,
                       !.doc.messages = Append(@, [role |-> "assistant", content |-> content,
                                                   contacts |-> contacts,
                                                   suggestedActions |-> suggestedActionsFor(contacts)]),
                       !.doc.contactCount = Len(contacts),
                       !.pc = "history"]
        ELSE [r EXCEPT !.contacts = contacts, !.formatted = content, !.enriched = TRUE,
                       !.pc = "history"]

\* Enrichment returned contacts: compose the answer, up to the history write.
Enriched(r, contacts) ==
    LET content == formatResults(r.svc, r.aiResult, contacts)
    IN  IF r.op = "sendMessage"
        THEN [r EXCEPT !.contacts = contacts, !.formatted = content, !.enriched = TRUE,
                       !.doc.messages = Append(@, [role |-> "assistant", content |-> content,
                                                   contacts |-> contacts,
                                                   suggestedActions |-> suggestedActionsFor(contacts)]),
                       !.doc.contactCount = @ + Len(contacts),
                       !.pc = "history"]
        ELSE [r EXCEPT !.contacts = contacts, !.formatted = content, !.enriched = TRUE,
                       !.pc = "history"]

\* The catch of the enrichment-level try of the two current services.
EnrichCatch(r, now) ==
    LET tp == r.aiResult.targetProfiles
    IN  IF r.aiResult.type = "null" \/ ~tp.present
        THEN Failed(r, "enrich", TypeErrorMap)
        ELSE Enriched(r, [i \in 1..Len(tp.items) |-> fallbackContact(tp.items[i], i - 1, now)])

\* enrichContactsWithRocketReach up to its first await
BeginEnrich(r, key, now) ==
    LET tp == r.aiResult.targetProfiles
        unusable == r.aiResult.type = "null" \/ ~tp.present
    IN  IF key = "" THEN
            IF unusable THEN Failed(r, "enrich", TypeErrorMap)
            ELSE Enriched(r, mockContacts(tp.items, now, r.svc = "conversations"))
        ELSE IF unusable THEN
            IF r.svc = "legacy"
            THEN [r EXCEPT !.pc = "reenter", !.depth = 1, !.reinvocations = 1]
            ELSE EnrichCatch(r, now)
        ELSE IF Len(tp.items) = 0 THEN Enriched(r, <<>>)
        ELSE [r EXCEPT !.pc = "subquery", !.i = 1, !.contacts = <<>>]

\* Interpreted as a bug would have it: a failed interpretation is noted and the
\* enrichment sub-queries are issued all the same, for a default profile.
InterpretedEnrichesAnyway(r, key, resp, now) ==
    LET parsed == parseQueryWithAI(r.svc, resp)
        r1 == [r EXCEPT !.aiCalls = @ + 1, !.input = r.message]
    IN  IF ~parsed.ok
        THEN [r1 EXCEPT !.errorFrom = "interpret", !.error = parsed.message,
                        !.aiResult = JsonObject(InterpretationPhrase, ListOf(ProfileList(1))),
                        !.pc = "subquery", !.i = 1]
        ELSE IF r.svc # "legacy" /\ parsed.value.type = "null"
        THEN Failed(r1, "interpret", TypeErrorNull)
        ELSE BeginEnrich([r1 EXCEPT !.aiResult = parsed.value], key, now)

\* Interpreted as a bug would have it: a failed first attempt is tried again.
InterpretedRetriesOnce(r, key, resp, now) ==
    LET parsed == parseQueryWithAI(r.svc, resp)
        r1 == [r EXCEPT !.aiCalls = @ + 1, !.input = r.message]
    IN  IF ~parsed.ok
        THEN IF r.aiCalls = 0 THEN r1 ELSE Failed(r1, "interpret", parsed.message)
        ELSE IF r.svc # "legacy" /\ parsed.value.type = "null"
        THEN Failed(r1, "interpret", TypeErrorNull)
        ELSE BeginEnrich([r1 EXCEPT !.aiResult = parsed.value], key, now)

\* The interpretation call answered with resp.
Interpreted(r, key, resp, now) ==
    LET parsed == parseQueryWithAI(r.svc, resp)
        r1 == [r EXCEPT !.aiCalls = @ + 1,
                        !.input = IF r.op = "sendMessage"
                                  THEN BuildInput(r.message,
                                         [i \in 1..Len(r.doc.messages) |->
                                            [role |-> r.doc.messages[i].role,
                                             content |-> r.doc.messages[i].content]])
                                  ELSE r.message]
    IN  IF ~parsed.ok THEN Failed(r1, "interpret", parsed.message)
        ELSE IF r.svc # "legacy" /\ parsed.value.type = "null"
        THEN Failed(r1, "interpret", TypeErrorNull)
        ELSE BeginEnrich([r1 EXCEPT !.aiResult = parsed.value], key, now)

\* new this.conversationModel({ userId, title: 'New Conversation', messages: [welcome] })
NewConversation(userId) ==
    [exists |-> TRUE, userId |-> userId, title |-> "New Conversation",
     messages |-> <<WelcomeMessage>>, contactCount |-> 0,
     followUpCount |-> 0, isArchived |-> FALSE]

CreateConversation(userId) ==
    /\ app = "current" /\ inv.pc = "idle" /\ ops < MaxOps /\ ConvId(nextConv) \in ConvIds
    /\ ops' = ops + 1
    /\ \E ok \in BOOLEAN :
         LET id == ConvId(nextConv)
             conversation == NewConversation(userId)
             r == Started("createConversation", "conversations", userId, id, "")
         IN  IF ok
             THEN /\ convs' = [convs EXCEPT ![id] = conversation]
                  /\ nextConv' = nextConv + 1
                  /\ inv' = [r EXCEPT !.pc = "done", !.saves = 1,
                                      !.outcome = [NoOutcome EXCEPT !.kind = "returned",
                                                     !.dto = mapToDto(id, conversation)]]
             ELSE /\ inv' = [r EXCEPT !.pc = "done", !.outcome = Thrown(500, StorageError)]
                  /\ UNCHANGED <<convs, nextConv>>
    /\ UNCHANGED <<history, apiCalls, app, rocketreachApiKey, nextHist, saved, other>>

SendMessage(userId, conversationId, message) ==
    /\ app = "current" /\ inv.pc = "idle" /\ ops < MaxOps
    /\ convs[conversationId].exists => Len(convs[conversationId].messages) + 3 <= MaxMessages
    /\ ops' = ops + 1
    /\ LET conversation == FindOne(convs, conversationId, userId)
           r == Started("sendMessage", "conversations", userId, conversationId, message)
       IN  IF ~conversation.exists
           THEN inv' = [r EXCEPT !.pc = "done",
                                 !.outcome = Thrown(404, "Conversation not found")]
           ELSE LET pushed == Append(conversation.messages, UserMessage(message))
                    titled == IF UserMessageCount(pushed) = 1
                              THEN DeriveTitle(message) ELSE conversation.title
                IN  inv' = [r EXCEPT !.pc = "increment",
                                     !.doc = [conversation EXCEPT !.messages = pushed,
                                                                  !.title = titled]]
    /\ UNCHANGED <<convs, history, apiCalls, app, rocketreachApiKey, nextConv, nextHist, saved, other>>

SearchContacts(svc, userId, query) ==
    /\ svc = (IF app = "legacy" THEN "legacy" ELSE "search")
    /\ inv.pc = "idle" /\ ops < MaxOps
    /\ ops' = ops + 1
    /\ inv' = [Started("searchContacts", svc, userId, "c0", query) EXCEPT !.pc = "increment"]
    /\ UNCHANGED <<convs, history, apiCalls, app, rocketreachApiKey, nextConv, nextHist, saved, other>>

\* Inc as a bug would have it: the call is charged twice.
IncTwice(calls, userId) == [calls EXCEPT ![userId] = @ + 2]

\* userModel.findByIdAndUpdate(userId, { $inc: { apiCallsCount: 1 } })
Inc(calls, userId) == [calls EXCEPT ![userId] = @ + 1]

\* usersService.incrementApiCallCount(userId)
IncrementApiCallCount ==
    /\ inv.pc = "increment"
    /\ \E ok \in BOOLEAN :
         IF ok
         THEN /\ apiCalls' = Inc(apiCalls, inv.userId)
              /\ inv' = [inv EXCEPT !.pc = "interpret", !.charged = TRUE]
         ELSE /\ UNCHANGED apiCalls
              /\ inv' = IF inv.op = "sendMessage"
                        THEN [inv EXCEPT !.pc = "done", !.errorFrom = "increment",
                                         !.error = StorageError,
                                         !.outcome = Thrown(500, StorageError)]
                        ELSE Failed(inv, "increment", StorageError)
    /\ UNCHANGED <<convs, history, app, rocketreachApiKey, nextConv, nextHist, ops, saved, other>>

Interpret ==
    /\ inv.pc = "interpret"
    /\ \E resp \in AiResponses, now \in Times :
         inv' = Interpreted(inv, rocketreachApiKey, resp, now)
    /\ UNCHANGED <<convs, history, apiCalls, app, rocketreachApiKey, nextConv, nextHist, ops, saved, other>>

\* Accumulate as a bug would have it: a failed sub-query discards what was collected.
AccumulateResetOnError(contacts, resp, mapped) ==
    IF resp.kind = "error" THEN <<>> ELSE contacts \o mapped

\* contacts.push(...mapped) in the inner try; its catch only logs
Accumulate(contacts, resp, mapped) ==
    IF resp.kind = "error" THEN contacts ELSE contacts \o mapped

\* LoopEnds as a bug would have it: a failed sub-query ends the loop.
LoopEndsOnError(i, n, resp) == i = n \/ resp.kind = "error"

\* the for loop over the target profiles ends after the last one
LoopEnds(i, n, resp) == i = n

\* The answer to the sub-query of target profile inv.i.
SubQuery ==
    /\ inv.pc = "subquery"
    /\ \E resp \in SubQueryResponses, now \in Times, rnd \in Rands :
         LET tp == inv.aiResult.targetProfiles.items
             profiles == ListOr(resp.profiles, ListOf(<<>>)).items
             mapped == mapProfiles(inv.svc, profiles, now, rnd)
             r == [inv EXCEPT !.contacts = Accumulate(@, resp, mapped),
                              !.subQueries = @ + 1,
                              !.responses = Append(@, resp)]
         IN  inv' = IF LoopEnds(inv.i, Len(tp), resp) THEN Enriched(r, r.contacts)
                    ELSE [r EXCEPT !.i = @ + 1]
    /\ UNCHANGED <<convs, history, apiCalls, app, rocketreachApiKey, nextConv, nextHist, ops, saved, other>>

\* The older service's catch: return this.enrichContactsWithRocketReach({...aiResult})
Reenter ==
    /\ inv.pc = "reenter"
    /\ inv' = IF inv.depth < MaxStack
              THEN [inv EXCEPT !.depth = @ + 1, !.reinvocations = @ + 1]
              ELSE Failed(inv, "enrich", StackOverflow)
    /\ UNCHANGED <<convs, history, apiCalls, app, rocketreachApiKey, nextConv, nextHist, ops, saved, other>>

\* SaveRecord as a bug would have it: the record is written twice.
SaveRecordTwice(store, id, userId, query, resultCount) ==
    store \o << [id |-> id, userId |-> userId, query |-> query, resultCount |-> resultCount],
               [id |-> id, userId |-> userId, query |-> query, resultCount |-> resultCount] >>

\* SaveRecord as a bug would have it: resultCount is left to the schema default.
SaveRecordDefaultCount(store, id, userId, query, resultCount) ==
    Append(store, [id |-> id, userId |-> userId, query |-> query, resultCount |-> 0])

\* new this.searchHistoryModel({ userId, query, resultCount, timestamp }).save()
SaveRecord(store, id, userId, query, resultCount) ==
    Append(store, [id |-> id, userId |-> userId, query |-> query,
                   resultCount |-> resultCount])

SaveSearchHistory ==
    /\ inv.pc = "history"
    /\ \E ok \in BOOLEAN :
         IF ok
         THEN /\ history' = SaveRecord(history, nextHist, inv.userId, inv.message,
                                        Len(inv.contacts))
              /\ nextHist' = nextHist + 1
              /\ inv' = IF inv.op = "sendMessage"
                        THEN [inv EXCEPT !.pc = "save", !.historyWrites = @ + 1]
                        ELSE [inv EXCEPT !.pc = "done", !.historyWrites = @ + 1,
                                !.outcome = [NoOutcome EXCEPT !.kind = "returned",
                                    !.result = [contacts |-> inv.contacts,
                                                message |-> inv.formatted,
                                                totalResults |-> Len(inv.contacts)]]]
         ELSE /\ UNCHANGED <<history, nextHist>>
              /\ inv' = Failed(inv, "history", StorageError)
    /\ UNCHANGED <<convs, apiCalls, app, rocketreachApiKey, nextConv, ops, saved, other>>

\* conversation.save() of a loaded document writes the paths modified since the
\* load: the pushed messages are appended to the stored array, a changed title
\* and a changed contactCount are set to the values of the local copy.
SaveDoc(stored, loaded, doc) ==
    [stored EXCEPT
        !.messages = @ \o SubSeq(doc.messages, Len(loaded.messages) + 1, Len(doc.messages)),
        !.title = IF doc.title # loaded.title THEN doc.title ELSE @,
        !.contactCount = IF doc.contactCount # loaded.contactCount
                         THEN doc.contactCount ELSE @]

\* conversation.save() at the end of the try
SaveConversation ==
    /\ inv.pc = "save"
    /\ \E ok \in BOOLEAN :
         IF ok
         THEN /\ convs' = [convs EXCEPT ![inv.convId] = SaveDoc(@, inv.pre, inv.doc)]
              /\ inv' = [inv EXCEPT !.pc = "done", !.saves = @ + 1,
                           !.outcome = [NoOutcome EXCEPT !.kind = "returned",
                                          !.dto = mapToDto(inv.convId, inv.doc)]]
         ELSE /\ UNCHANGED convs
              /\ inv' = Failed(inv, "save", StorageError)
    /\ UNCHANGED <<history, apiCalls, app, rocketreachApiKey, nextConv, nextHist, ops, saved, other>>

\* conversation.save() in the catch
SaveErrorTurn ==
    /\ inv.pc = "catchsave"
    /\ \E ok \in BOOLEAN :
         IF ok
         THEN /\ convs' = [convs EXCEPT ![inv.convId] = SaveDoc(@, inv.pre, inv.doc)]
              /\ inv' = [inv EXCEPT !.pc = "done", !.saves = @ + 1,
                           !.outcome = [NoOutcome EXCEPT !.kind = "returned",
                                          !.dto = mapToDto(inv.convId, inv.doc)]]
         ELSE /\ UNCHANGED convs
              /\ inv' = [inv EXCEPT !.pc = "done", !.errorFrom = "catchsave",
                                    !.outcome = Thrown(500, StorageError)]
    /\ UNCHANGED <<history, apiCalls, app, rocketreachApiKey, nextConv, nextHist, ops, saved, other>>

GetConversation(userId, conversationId) ==
    /\ app = "current" /\ inv.pc = "idle" /\ ops < MaxOps
    /\ ops' = ops + 1
    /\ LET conversation == FindOne(convs, conversationId, userId)
           r == Started("getConversation", "conversations", userId, conversationId, "")
       IN  inv' = [r EXCEPT !.pc = "done",
                     !.outcome = IF conversation.exists
                                 THEN [NoOutcome EXCEPT !.kind = "returned",
                                         !.dto = mapToDto(conversationId, conversation)]
                                 ELSE Thrown(404, "Conversation not found")]
    /\ UNCHANGED <<convs, history, apiCalls, app, rocketreachApiKey, nextConv, nextHist, saved, other>>

DeleteConversation(userId, conversationId) ==
    /\ app = "current" /\ inv.pc = "idle" /\ ops < MaxOps
    /\ ops' = ops + 1
    /\ LET deletedCount == IF FindOne(convs, conversationId, userId).exists THEN 1 ELSE 0
           r == Started("deleteConversation", "conversations", userId, conversationId, "")
       IN  /\ convs' = IF deletedCount > 0 THEN [convs EXCEPT ![conversationId] = NoDoc]
                       ELSE convs
           /\ inv' = [r EXCEPT !.pc = "done",
                        !.outcome = [NoOutcome EXCEPT !.kind = "returned",
                                       !.flag = deletedCount > 0]]
    /\ UNCHANGED <<history, apiCalls, app, rocketreachApiKey, nextConv, nextHist, saved, other>>

ArchiveConversation(userId, conversationId) ==
    /\ app = "current" /\ inv.pc = "idle" /\ ops < MaxOps
    /\ ops' = ops + 1
    /\ LET conversation == FindOne(convs, conversationId, userId)
           modifiedCount == IF conversation.exists /\ ~conversation.isArchived THEN 1 ELSE 0
           r == Started("archiveConversation", "conversations", userId, conversationId, "")
       IN  /\ convs' = IF conversation.exists
                       THEN [convs EXCEPT ![conversationId].isArchived = TRUE]
                       ELSE convs
           /\ inv' = [r EXCEPT !.pc = "done",
                        !.outcome = [NoOutcome EXCEPT !.kind = "returned",
                                       !.flag = modifiedCount > 0]]
    /\ UNCHANGED <<history, apiCalls, app, rocketreachApiKey, nextConv, nextHist, saved, other>>

\* DeleteOne as a bug would have it: the owner is not part of the filter.
DeleteOneAnyOwner(store, historyId, userId) ==
    SeqFilter(store, [i \in 1..Len(store) |-> store[i].id # historyId])

\* searchHistoryModel.deleteOne({ _id: historyId, userId })
DeleteOne(store, historyId, userId) ==
    SeqFilter(store, [i \in 1..Len(store) |->
                        ~(store[i].id = historyId /\ store[i].userId = userId)])

\* searchHistoryModel.deleteMany({ userId })
DeleteMany(store, userId) ==
    SeqFilter(store, [i \in 1..Len(store) |-> store[i].userId # userId])

\* The record ids a caller may name: those handed out so far, and one never used.
HistoryIds == 1..(MaxOps + 1)

\* deleteSearchHistory, the same in the three services. The history operations
\* are not counted in ops: they only ever shrink the store.
DeleteSearchHistory(userId, historyId) ==
    /\ inv.pc = "idle"
    /\ LET remaining == DeleteOne(history, historyId, userId)
           deletedCount == Len(history) - Len(remaining)
           r == Started("deleteSearchHistory", "history", userId, "c0", "")
       IN  /\ history' = remaining
           /\ inv' = [r EXCEPT !.pc = "done", !.historyId = historyId,
                        !.outcome = [NoOutcome EXCEPT !.kind = "returned",
                                       !.flag = deletedCount > 0]]
    /\ UNCHANGED <<convs, apiCalls, app, rocketreachApiKey, nextConv, nextHist, ops, saved, other>>

\* clearSearchHistory, the same in the three services
ClearSearchHistory(userId) ==
    /\ inv.pc = "idle"
    /\ LET r == Started("clearSearchHistory", "history", userId, "c0", "")
       IN  /\ history' = DeleteMany(history, userId)
           /\ inv' = [r EXCEPT !.pc = "done",
                        !.outcome = [NoOutcome EXCEPT !.kind = "returned", !.flag = TRUE]]
    /\ UNCHANGED <<convs, apiCalls, app, rocketreachApiKey, nextConv, nextHist, ops, saved, other>>

\* ------------------------------------------------------ contacts and follow-up
ContactIds == {"101", "102"}
Channels == {"EMAIL", "SMS"}

\* contactModel.findOne({ userId, contactId })
FindContact(store, userId, contactId) ==
    {c \in store : c.userId = userId /\ c.contactId = contactId}

\* contactsService.saveContact: an upsert on (userId, contactId)
SaveContact(userId, contactId) ==
    /\ app = "current" /\ inv.pc = "idle"
    /\ saved' = saved \cup {[userId |-> userId, contactId |-> contactId]}
    /\ inv' = [Started("saveContact", "contacts", userId, "c0", "") EXCEPT
                 !.pc = "done", !.contactId = contactId,
                 !.outcome = [NoOutcome EXCEPT !.kind = "returned", !.flag = TRUE]]
    /\ UNCHANGED <<convs, history, apiCalls, app, rocketreachApiKey, nextConv, nextHist, ops, other>>

\* contactsService.deleteContact
DeleteContact(userId, contactId) ==
    /\ app = "current" /\ inv.pc = "idle"
    /\ saved' = saved \ FindContact(saved, userId, contactId)
    /\ inv' = [Started("deleteContact", "contacts", userId, "c0", "") EXCEPT
                 !.pc = "done", !.contactId = contactId,
                 !.outcome = [NoOutcome EXCEPT !.kind = "returned",
                                !.flag = FindContact(saved, userId, contactId) # {}]]
    /\ UNCHANGED <<convs, history, apiCalls, app, rocketreachApiKey, nextConv, nextHist, ops, other>>

\* The catch of generateFollowUp: whatever was thrown inside the try leaves as
\* HttpException 500 'Failed to generate follow-up message'.
FollowUpCatch(r, thrown) ==
    [r EXCEPT !.pc = "done", !.errorFrom = "followup", !.error = thrown.message,
              !.outcome = Thrown(500, "Failed to generate follow-up message")]

\* generateFollowUp up to its request to the language model
GenerateFollowUp(userId, contactId, channel) ==
    /\ app = "current" /\ inv.pc = "idle"
    /\ LET contact == FindContact(saved, userId, contactId)
           r == [Started("generateFollowUp", "followup", userId, "c0", channel)
                   EXCEPT !.contactId = contactId]
       IN  inv' = IF contact = {}
                  THEN FollowUpCatch(r, Thrown(404, "Contact not found"))
                  ELSE [r EXCEPT !.pc = "followup"]
    /\ UNCHANGED <<convs, history, apiCalls, app, rocketreachApiKey, nextConv, nextHist, ops, saved, other>>

\* What the model may answer to a follow-up request.
FollowUpJson == "{\"subject\":\"Quick follow-up\",\"body\":\"Hi, following up on our chat.\"}"
FollowUpPlain == "Hi, following up on our chat."
FollowUpResponses ==
    {AiError(Undefined, "timeout of 30000ms exceeded"),
     AiOutput(<<FollowUpJson>>), AiOutput(<<FollowUpPlain>>)}

\* parseFollowUpResponse: JSON if it parses, else the raw text as the body
parseFollowUpResponse(content, channel) ==
    IF content = FollowUpJson
    THEN [subject |-> "Quick follow-up", body |-> "Hi, following up on our chat.",
          channel |-> channel]
    ELSE [subject |-> IF channel = "EMAIL" THEN "Follow-up" ELSE Undefined,
          body |-> content, channel |-> channel]

\* The language model answered the follow-up request.
FollowUpResponds ==
    /\ inv.pc = "followup"
    /\ \E resp \in FollowUpResponses :
         inv' = IF resp.kind = "error"
                THEN FollowUpCatch([inv EXCEPT !.aiCalls = @ + 1], Thrown(0, resp.message))
                ELSE [inv EXCEPT !.pc = "done", !.aiCalls = @ + 1,
                        !.outcome = [NoOutcome EXCEPT !.kind = "returned",
                           !.followUp = parseFollowUpResponse(ExtractText(resp.output),
                                                              inv.message)]]
    /\ UNCHANGED <<convs, history, apiCalls, app, rocketreachApiKey, nextConv, nextHist, ops, saved, other>>

\* The invocation has returned or thrown; the next request may come.
Return ==
    /\ inv.pc = "done"
    /\ inv' = IdleInv
    /\ UNCHANGED <<convs, history, apiCalls, app, rocketreachApiKey, nextConv, nextHist, ops, saved, other>>

Next ==
    \/ \E u \in Users : CreateConversation(u)
    \/ \E u \in Users, c \in CallerConvIds, m \in Messages : SendMessage(u, c, m)
    \/ \E svc \in {"search", "legacy"}, u \in Users, q \in SearchQueries : SearchContacts(svc, u, q)
    \/ IncrementApiCallCount
    \/ Interpret
    \/ SubQuery
    \/ Reenter
    \/ SaveSearchHistory
    \/ SaveConversation
    \/ SaveErrorTurn
    \/ \E u \in Users, c \in CallerConvIds : GetConversation(u, c)
    \/ \E u \in Users, c \in CallerConvIds : DeleteConversation(u, c)
    \/ \E u \in Users, c \in CallerConvIds : ArchiveConversation(u, c)
    \/ Return

Spec == Init /\ [][Next]_vars

\* The single-shot search together with the history maintenance operations.
HistoryNext ==
    \/ \E svc \in {"search", "legacy"}, u \in Users, q \in SearchQueries : SearchContacts(svc, u, q)
    \/ IncrementApiCallCount
    \/ Interpret
    \/ SubQuery
    \/ Reenter
    \/ SaveSearchHistory
    \/ \E u \in Users, h \in HistoryIds : DeleteSearchHistory(u, h)
    \/ \E u \in Users : ClearSearchHistory(u)
    \/ Return

HistorySpec == Init /\ [][HistoryNext]_vars

\* The raw profiles handed to the normalizer: the provider fixtures, and the
\* same without a provider id.
RawProfiles ==
    {Raw1, Raw2, Raw3, Raw4} \cup {[p EXCEPT !.id = NoScore] : p \in {Raw1, Raw2, Raw3}}

\* How often one raw profile is normalized.
Applications == 2

NormalizeInit ==
    /\ convs = [c \in CallerConvIds |-> NoDoc]
    /\ history = <<>>
    /\ apiCalls = [u \in Users |-> 0]
    /\ app = "current"
    /\ rocketreachApiKey = "rr-key"
    /\ nextConv = 1
    /\ nextHist = 1
    /\ ops = 0
    /\ saved = {}
    /\ other = IdleInv
    /\ \E svc \in {"conversations", "search"}, p \in RawProfiles :
         inv = [IdleInv EXCEPT !.op = "normalize", !.svc = svc, !.pc = "normalize",
                               !.responses = <<RrOk(ListOf(<<p>>))>>]

\* this.mapRocketReachProfile(p), once more on the same raw profile
Normalize ==
    /\ inv.pc = "normalize"
    /\ \E now \in Times, rnd \in Rands :
         LET profiles == inv.responses[1].profiles.items
             mapped == mapProfiles(inv.svc, profiles, now, rnd)
         IN  inv' = [inv EXCEPT !.contacts = @ \o mapped,
                                !.entropy = Append(@, <<now, rnd>>),
                                !.pc = IF Len(inv.contacts) + 1 = Applications
                                       THEN "done" ELSE "normalize"]
    /\ UNCHANGED <<convs, history, apiCalls, app, rocketreachApiKey, nextConv, nextHist, ops, saved, other>>

NormalizeSpec == NormalizeInit /\ [][Normalize]_vars

\* Messages of exactly 60 and of 61 characters, on either side of the title cut.
Message60 == "Find chief marketing officers at consumer brands in Montreal"
Message61 == "Find chief marketing officers at consumer brands in Vancouver"
TitleMessages == {Message60, Message61, LongMessage}

\* The turns of one conversation: the state after createConversation(u1) in a
\* deployment without a provider key, and from there the sendMessage pipeline alone.
ConversationInit ==
    /\ convs = [c \in CallerConvIds |-> IF c = ConvId(1) THEN NewConversation("u1") ELSE NoDoc]
    /\ history = <<>>
    /\ apiCalls = [u \in Users |-> 0]
    /\ app = "current"
    /\ rocketreachApiKey = ""
    /\ nextConv = 2
    /\ nextHist = 1
    /\ ops = 0
    /\ saved = {}
    /\ inv = IdleInv
    /\ other = IdleInv

ConversationNext ==
    \/ \E u \in Users, m \in TitleMessages : SendMessage(u, ConvId(1), m)
    \/ IncrementApiCallCount
    \/ Interpret
    \/ SaveSearchHistory
    \/ SaveConversation
    \/ SaveErrorTurn
    \/ Return

ConversationSpec == ConversationInit /\ [][ConversationNext]_vars

\* The saved contacts and the follow-up generation.
FollowUpNext ==
    \/ \E u \in Users, c \in ContactIds : SaveContact(u, c)
    \/ \E u \in Users, c \in ContactIds : DeleteContact(u, c)
    \/ \E u \in Users, c \in ContactIds, ch \in Channels : GenerateFollowUp(u, c, ch)
    \/ FollowUpResponds
    \/ Return

\* FollowUpModule is part of the current application only.
FollowUpInit == Init /\ app = "current"

FollowUpSpec == FollowUpInit /\ [][FollowUpNext]_vars

\* Two requests served by one event loop: at an await of the invocation that
\* runs, the loop may resume the other request's invocation instead.
Switch ==
    /\ inv # other
    /\ inv' = other
    /\ other' = inv
    /\ UNCHANGED <<convs, history, apiCalls, app, rocketreachApiKey, nextConv, nextHist, ops, saved>>

\* Two sendMessage requests on the conversation of u1, each run to its end; the
\* deployment has no provider key.
ConcurrentNext ==
    \/ \E u \in Users, m \in Messages : SendMessage(u, ConvId(1), m)
    \/ IncrementApiCallCount
    \/ Interpret
    \/ SaveSearchHistory
    \/ SaveConversation
    \/ SaveErrorTurn
    \/ Switch

ConcurrentSpec == ConversationInit /\ [][ConcurrentNext]_vars


\* ---------------------------------------------------------------- claims
Contains(s, sub) ==
    \E k \in 0..(Len(s) - Len(sub)) : SubSeq(s, k + 1, k + Len(sub)) = sub

SendReturned ==
    inv.op = "sendMessage" /\ inv.pc = "done" /\ inv.pre.exists
    /\ inv.pre.userId = inv.userId /\ inv.outcome.kind = "returned"

\* C1: every sendMessage that found its conversation and returned leaves the
\* transcript exactly 2 entries longer than it was at the load: the user turn,
\* then one assistant turn, whichever step of the turn failed.
C1_TranscriptGrowsByTwo ==
    SendReturned =>
        /\ Len(inv.outcome.dto.messages) = Len(inv.pre.messages) + 2
        /\ Len(convs[inv.convId].messages) = Len(inv.pre.messages) + 2
        /\ SubSeq(convs[inv.convId].messages, 1, Len(inv.pre.messages)) = inv.pre.messages
        /\ convs[inv.convId].messages[Len(inv.pre.messages) + 1].role = "user"
        /\ convs[inv.convId].messages[Len(inv.pre.messages) + 2].role = "assistant"

\* C2: when interpretation or enrichment fails, the turn appends to the user turn
\* one assistant message that carries the failure reason, invites retry and has
\* no contacts, and contactCount keeps the value it had before the call.
RetryActions == <<"Try again", "Rephrase your search">>

C2_PipelineFailureTurn ==
    (inv.op = "sendMessage" /\ inv.errorFrom \in {"interpret", "enrich"}) =>
        LET n == Len(inv.pre.messages)
            turn == inv.doc.messages[n + 2]
        IN  /\ Len(inv.doc.messages) = n + 2
            /\ SubSeq(inv.doc.messages, 1, n) = inv.pre.messages
            /\ inv.doc.messages[n + 1] = UserMessage(inv.message)
            /\ turn.role = "assistant"
            /\ inv.error # "" /\ Contains(turn.content, inv.error)
            /\ Contains(inv.error, "Failed to parse query with AI")
               \/ inv.error \in {TypeErrorMap, TypeErrorNull}
            /\ turn.suggestedActions = RetryActions
            /\ turn.contacts = <<>>
            /\ inv.doc.contactCount = inv.pre.contactCount
            /\ (inv.pc = "done" /\ inv.outcome.kind = "returned") =>
                   /\ convs[inv.convId] = inv.doc
                   /\ inv.outcome.dto.contactCount = inv.pre.contactCount
                   /\ inv.outcome.dto.messages = inv.doc.messages

C2_Witness ==
    /\ inv.op = "sendMessage" /\ inv.errorFrom = "enrich"
    /\ inv.pc = "done" /\ inv.outcome.kind = "returned"
    /\ inv.message = LongMessage


\* Every awaited call settles: the outbound calls carry timeouts, the storage
\* collaborator answers or rejects.
FairSpec ==
    /\ Spec
    /\ WF_vars(IncrementApiCallCount) /\ WF_vars(Interpret) /\ WF_vars(SubQuery)
    /\ WF_vars(Reenter) /\ WF_vars(SaveSearchHistory) /\ WF_vars(SaveConversation)
    /\ WF_vars(SaveErrorTurn)

SendLoaded ==
    inv.op = "sendMessage" /\ inv.pre.exists /\ inv.pre.userId = inv.userId
SendSettled == SendLoaded /\ inv.pc = "done"
Persisted ==
    /\ inv.outcome.kind = "returned"
    /\ convs[inv.convId] = inv.doc
    /\ inv.outcome.dto = mapToDto(inv.convId, inv.doc)

\* C3 as stated: every sendMessage that has loaded its conversation ends
\* Persisted, with the updated conversation returned and nothing thrown.
C3_AlwaysPersisted == SendSettled => Persisted

\* C3, amended: every sendMessage that has loaded its conversation settles; it
\* ends Persisted with the updated conversation returned, unless a storage write
\* (the usage increment, or the save in the catch) rejects, and then that storage
\* error is what is thrown. An interpretation or enrichment failure is never thrown.
C3_PersistedUnlessStorageFails ==
    /\ [](SendSettled =>
            \/ Persisted /\ Len(inv.doc.messages) >= Len(inv.pre.messages) + 2
            \/ /\ inv.outcome = Thrown(500, StorageError)
               /\ inv.errorFrom \in {"increment", "catchsave"})
    /\ [](SendSettled /\ inv.errorFrom \in {"interpret", "enrich"} => Persisted)
    /\ ((SendLoaded /\ inv.pc # "done") ~> SendSettled)

C3_Witness ==
    SendSettled /\ Persisted /\ inv.errorFrom = "interpret"

\* C4: in searchContacts a failure of any stage (usage increment, interpretation,
\* enrichment, history write) reaches the caller as HttpException 500
\* "Search failed: ...", no result is returned and no history record is stored.
C4_SearchFailureSurfaces ==
    (inv.op = "searchContacts" /\ inv.pc = "done") =>
        IF inv.errorFrom # "none"
        THEN /\ inv.errorFrom \in {"increment", "interpret", "enrich", "history"}
             /\ inv.outcome.kind = "thrown" /\ inv.outcome.status = 500
             /\ inv.outcome.message = "Search failed: " \o inv.error
             /\ inv.error # ""
             /\ inv.outcome.result = NoResult
             /\ history = inv.preHistory /\ inv.historyWrites = 0
        ELSE /\ inv.outcome.kind = "returned"
             /\ inv.charged /\ inv.aiCalls = 1 /\ inv.enriched /\ inv.historyWrites = 1
             /\ Len(history) = Len(inv.preHistory) + 1

C4_Witness ==
    /\ inv.op = "searchContacts" /\ inv.pc = "done" /\ inv.errorFrom = "history"
    /\ inv.outcome.kind = "thrown" /\ Len(inv.contacts) > 0

\* C5: enrichment never throws, whatever parsed JSON object it is handed,
\* with or without a provider key, targetProfiles missing or empty included.
C5_EnrichmentNeverThrows ==
    inv.aiResult.type = "object" => inv.errorFrom # "enrich"

\* The concatenation, in sub-query order, of what each answered sub-query carried.
ExpectedContacts(svc, responses) ==
    Flatten([i \in 1..Len(responses) |->
               IF responses[i].kind = "error" THEN <<>>
               ELSE LET profiles == IF responses[i].profiles.present
                                    THEN responses[i].profiles.items ELSE <<>>
                    IN  [j \in 1..Len(profiles) |->
                           IF svc = "legacy"
                           THEN legacyMapRocketReachProfile(profiles[j], 1000, "0.25")
                           ELSE mapRocketReachProfile(profiles[j], 1000, "0.25")]])

\* C6: with a provider key, the enrichment result is the concatenation, in target
\* profile order, of the normalized profiles of the sub-queries that succeeded; a
\* sub-query that throws adds nothing, stops nothing and surfaces no error.
C6_PartialFailureKeepsOthers ==
    (rocketreachApiKey # "" /\ inv.aiResult.type = "object"
       /\ inv.aiResult.targetProfiles.present) =>
        LET tp == inv.aiResult.targetProfiles.items
            n == Len(inv.pre.messages)
        IN  /\ inv.contacts = ExpectedContacts(inv.svc, inv.responses)
            /\ inv.errorFrom # "enrich"
            /\ inv.pc = "subquery" => Len(inv.responses) = inv.i - 1 /\ inv.i <= Len(tp)
            /\ inv.enriched =>
                 /\ Len(inv.responses) = Len(tp)
                 /\ inv.op = "sendMessage" =>
                      /\ inv.doc.messages[n + 2].role = "assistant"
                      /\ inv.doc.messages[n + 2].contacts = ExpectedContacts(inv.svc, inv.responses)
                      /\ ~Contains(inv.doc.messages[n + 2].content, "I encountered an issue")
                      /\ inv.doc.contactCount = inv.pre.contactCount + Len(inv.contacts)
                 /\ (inv.op = "searchContacts" /\ inv.outcome.kind = "returned") =>
                      inv.outcome.result.contacts = ExpectedContacts(inv.svc, inv.responses)

C6_Witness ==
    /\ rocketreachApiKey # "" /\ inv.op = "sendMessage" /\ inv.pc = "done"
    /\ inv.outcome.kind = "returned" /\ inv.errorFrom = "none"
    /\ Len(inv.responses) = 2
    /\ inv.responses[1].kind = "error" /\ inv.responses[2].kind = "ok"
    /\ Len(inv.contacts) = 3
    /\ Len(convs[inv.convId].messages) = Len(inv.pre.messages) + 2

\* C7: an enrichment of k target profiles issues exactly k provider sub-queries
\* with a provider key, whatever their outcomes, and none without a key.
C7_OneSubQueryPerProfile ==
    /\ rocketreachApiKey = "" => inv.subQueries = 0
    /\ inv.pc = "subquery" => inv.subQueries = inv.i - 1
    /\ (inv.enriched /\ rocketreachApiKey # "") =>
           inv.subQueries = Len(inv.aiResult.targetProfiles.items)

C7_Witness ==
    /\ inv.enriched /\ rocketreachApiKey # "" /\ inv.op = "searchContacts"
    /\ Len(inv.aiResult.targetProfiles.items) = 2 /\ inv.subQueries = 2
    /\ inv.responses[1].kind = "error"

\* C8: without a provider key the enrichment returns one synthetic contact per
\* target profile, in profile order, each with one non-empty e-mail address and
\* one non-empty phone number derived from the profile's index.
C8_MockPerProfile ==
    (rocketreachApiKey = "" /\ inv.enriched) =>
        LET tp == inv.aiResult.targetProfiles.items
        IN  /\ Len(inv.contacts) = Len(tp)
            /\ \A i \in 1..Len(tp) :
                 /\ inv.contacts[i].emails = <<"professional" \o ToString(i) \o "@example.com">>
                 /\ inv.contacts[i].phones = <<"+1-555-0" \o ToString(99 + i)>>
                 /\ Len(inv.contacts[i].emails[1]) > 0 /\ Len(inv.contacts[i].phones[1]) > 0
                 /\ inv.contacts[i].title = tp[i].role
                 /\ inv.contacts[i].company = tp[i].company

C8_Witness ==
    /\ rocketreachApiKey = "" /\ inv.enriched /\ Len(inv.contacts) = 2
    /\ inv.contacts[2].emails = <<"professional2@example.com">>

\* C9: the enrichment routine never re-invokes itself, so an invocation ends
\* after at most targetProfiles.length sub-queries.
C9_NeverReinvokes ==
    inv.reinvocations = 0

\* C10: get, send, delete and archive called by a user who does not own the
\* conversation end exactly as for an id that does not exist (404 "Conversation
\* not found" from get and send, false from delete and archive), and the stored
\* conversation is unchanged.
NotFoundOutcome(op) ==
    IF op \in {"getConversation", "sendMessage"}
    THEN Thrown(404, "Conversation not found")
    ELSE [NoOutcome EXCEPT !.kind = "returned", !.flag = FALSE]

C10_ForeignIsNotFound ==
    (inv.pc = "done" /\ inv.op \in {"getConversation", "sendMessage",
                                    "deleteConversation", "archiveConversation"}
       /\ (~inv.pre.exists \/ inv.pre.userId # inv.userId)) =>
        /\ inv.outcome = NotFoundOutcome(inv.op)
        /\ convs[inv.convId] = inv.pre
        /\ inv.saves = 0 /\ ~inv.charged

C10_Witness ==
    /\ inv.pc = "done" /\ inv.op = "sendMessage"
    /\ inv.pre.exists /\ inv.pre.userId # inv.userId
    /\ inv.outcome.kind = "thrown"


\* C11: deleteSearchHistory(userB, id) on a record that belongs to another user
\* (or to nobody) answers false and leaves the stored records as they were;
\* on a record of userB it removes exactly that record; clearSearchHistory(userB)
\* removes userB's records and no others.
OwnerOf(store, historyId) ==
    {store[i].userId : i \in {j \in 1..Len(store) : store[j].id = historyId}}

C11_HistoryIsUserScoped ==
    /\ (inv.op = "deleteSearchHistory" /\ inv.pc = "done") =>
          IF inv.userId \in OwnerOf(inv.preHistory, inv.historyId)
          THEN /\ inv.outcome.flag = TRUE
               /\ Len(history) = Len(inv.preHistory) - 1
               /\ OwnerOf(history, inv.historyId) = {}
               /\ \A i \in 1..Len(inv.preHistory) :
                    inv.preHistory[i].id # inv.historyId =>
                        \E j \in 1..Len(history) : history[j] = inv.preHistory[i]
          ELSE inv.outcome.flag = FALSE /\ history = inv.preHistory
    /\ (inv.op = "clearSearchHistory" /\ inv.pc = "done") =>
          /\ inv.outcome.flag = TRUE
          /\ \A j \in 1..Len(history) : history[j].userId # inv.userId
          /\ \A i \in 1..Len(inv.preHistory) :
               inv.preHistory[i].userId # inv.userId =>
                   \E j \in 1..Len(history) : history[j] = inv.preHistory[i]
          /\ Len(history) = Cardinality({i \in 1..Len(inv.preHistory) :
                                           inv.preHistory[i].userId # inv.userId})

\* user B names a record of user A
C11_Witness ==
    /\ inv.op = "deleteSearchHistory" /\ inv.pc = "done"
    /\ OwnerOf(inv.preHistory, inv.historyId) # {}
    /\ inv.userId \notin OwnerOf(inv.preHistory, inv.historyId)
    /\ inv.outcome.flag = FALSE /\ Len(history) = 1

\* A pipeline invocation: a sendMessage that loaded its conversation, or a searchContacts.
PipelineInvocation ==
    inv.op = "searchContacts" \/ SendLoaded
PipelineDone == PipelineInvocation /\ inv.pc = "done"

\* C12 as stated: every pipeline invocation, succeeded or failed, has appended
\* exactly one history record when it ends.
C12_OneRecordPerInvocation ==
    PipelineDone => Len(history) = Len(inv.preHistory) + 1

\* C12, amended: a pipeline invocation appends exactly one history record (its
\* user, its query, its contact count) when interpretation and enrichment have
\* succeeded and the history write itself succeeds; an invocation that fails at
\* the usage increment, the interpretation, the enrichment or the history write
\* appends none; no invocation appends more than one.
C12_OneRecordOnSuccess ==
    PipelineInvocation =>
        LET record == [id |-> Len(inv.preHistory) + 1, userId |-> inv.userId,
                       query |-> inv.message, resultCount |-> Len(inv.contacts)]
        IN  /\ history = inv.preHistory \/ history = Append(inv.preHistory, record)
            /\ Len(history) = Len(inv.preHistory) + inv.historyWrites
            /\ ~inv.enriched => history = inv.preHistory
            /\ inv.errorFrom \in {"increment", "interpret", "enrich", "history"}
                  => history = inv.preHistory
            /\ (inv.pc = "done" /\ inv.errorFrom = "none")
                  => history = Append(inv.preHistory, record)
            /\ inv.pc \in {"save"} => history = Append(inv.preHistory, record)

\* a failed turn that left no record
C12_Witness ==
    /\ PipelineDone /\ inv.op = "sendMessage" /\ inv.errorFrom = "interpret"
    /\ inv.outcome.kind = "returned" /\ history = inv.preHistory

\* C13 as stated: every sendMessage that finds its conversation has raised the
\* user's apiCallsCount by exactly 1 when it ends.
C13_AlwaysCharged ==
    SendSettled => apiCalls[inv.userId] = inv.preCalls[inv.userId] + 1

\* C13, amended: a sendMessage that finds its conversation raises the user's
\* apiCallsCount by exactly 1 before the interpretation call is issued, and the
\* increment is kept when interpretation or enrichment then fails; unless the
\* increment itself is rejected by storage: then the call throws that error,
\* nothing is counted and no interpretation call is made. A sendMessage that
\* ends with "Conversation not found" counts nothing. No other user is charged.
C13_ChargedOnceBeforeInterpretation ==
    inv.op = "sendMessage" =>
        /\ \A u \in Users \ {inv.userId} : apiCalls[u] = inv.preCalls[u]
        /\ apiCalls[inv.userId] \in {inv.preCalls[inv.userId], inv.preCalls[inv.userId] + 1}
        /\ (inv.aiCalls > 0 \/ inv.pc = "interpret")
              => apiCalls[inv.userId] = inv.preCalls[inv.userId] + 1
        /\ inv.errorFrom \in {"interpret", "enrich"}
              => apiCalls[inv.userId] = inv.preCalls[inv.userId] + 1
        /\ SendSettled =>
              IF inv.errorFrom = "increment"
              THEN /\ apiCalls = inv.preCalls /\ inv.aiCalls = 0
                   /\ inv.outcome = Thrown(500, StorageError)
              ELSE apiCalls[inv.userId] = inv.preCalls[inv.userId] + 1
        /\ ~SendLoaded =>
              /\ apiCalls = inv.preCalls
              /\ inv.pc = "done" /\ inv.outcome = Thrown(404, "Conversation not found")

\* a turn whose enrichment failed, charged all the same
C13_Witness ==
    /\ SendSettled /\ inv.errorFrom = "enrich" /\ inv.outcome.kind = "returned"
    /\ apiCalls[inv.userId] = inv.preCalls[inv.userId] + 1

\* C14: a raw profile whose emails list is [{email:"a@b.com"}, "c@d.com",
\* {number:"x"}] is normalized to emails = ["a@b.com", "c@d.com"]: the entry
\* that only carries a phone-shaped field stays out of the emails.
C14_EmailsExcludePhoneEntries ==
    (inv.op = "normalize" /\ inv.responses[1].profiles.items[1].emails = Raw1.emails) =>
        \A i \in 1..Len(inv.contacts) : inv.contacts[i].emails = <<"a@b.com", "c@d.com">>

\* The content of the first user turn of a transcript that has one.
FirstUserMessage(messages) ==
    LET first == CHOOSE i \in 1..Len(messages) :
                   /\ messages[i].role = "user"
                   /\ \A j \in 1..(i - 1) : messages[j].role # "user"
    IN  messages[first].content

TitleFollowsFirstMessage(conversation) ==
    IF UserMessageCount(conversation.messages) = 0
    THEN conversation.title = "New Conversation"
    ELSE LET m == FirstUserMessage(conversation.messages)
         IN  /\ Len(m) <= 60 => conversation.title = m
             /\ Len(m) > 60 => conversation.title = SubSeq(m, 1, 57) \o "..."
             /\ Len(conversation.title) <= 60

\* C15: once a conversation holds a user message, its title is the first user
\* message if that has at most 60 characters, else its first 57 characters
\* followed by "..." (never more than 60 characters), in the stored document,
\* in the document being worked on and in the returned one; a later sendMessage
\* leaves the title as it was.
C15_TitleFromFirstMessage ==
    /\ \A c \in ConvIds : convs[c].exists => TitleFollowsFirstMessage(convs[c])
    /\ (inv.op = "sendMessage" /\ SendLoaded) =>
          /\ TitleFollowsFirstMessage(inv.doc)
          /\ UserMessageCount(inv.pre.messages) > 0 => inv.doc.title = inv.pre.title
          /\ (inv.pc = "done" /\ inv.outcome.kind = "returned") =>
                inv.outcome.dto.title = inv.doc.title

\* the long first message of the scenario, and a second turn after it
C15_Witness ==
    /\ inv.op = "sendMessage" /\ inv.pc = "done" /\ inv.outcome.kind = "returned"
    /\ inv.message = Message60
    /\ UserMessageCount(convs[ConvId(1)].messages) = 2
    /\ FirstUserMessage(convs[ConvId(1)].messages) = LongMessage
    /\ convs[ConvId(1)].title = "Find me senior backend engineers in Berlin who have worke..."

\* C16: the composed message echoes the interpretation phrase; with no contacts
\* it invites a refined query, reports no error, and the turn leaves
\* contactCount as it was; with n >= 1 contacts it states n, with "professional"
\* for n = 1 and "professionals" for n > 1.
C16_ComposedMessage ==
    inv.enriched =>
        LET n == Len(inv.contacts)
            phrase == inv.aiResult.interpretation
            k == Len(inv.pre.messages)
        IN  /\ Truthy(phrase) /\ Contains(inv.formatted, phrase)
            /\ n = 0 =>
                 /\ Contains(inv.formatted, "Try refining your search")
                 /\ ~Contains(inv.formatted, "issue")
                 /\ ~Contains(inv.formatted, "rror")
                 /\ ~Contains(inv.formatted, "ailed")
                 /\ inv.op = "sendMessage" => inv.doc.contactCount = inv.pre.contactCount
            /\ n = 1 => StartsWith(inv.formatted, "I found 1 professional matching ")
            /\ n > 1 => StartsWith(inv.formatted,
                                   "I found " \o ToString(n) \o " professionals matching ")
            /\ inv.op = "sendMessage" => inv.doc.messages[k + 2].content = inv.formatted
            /\ (inv.op = "searchContacts" /\ inv.outcome.kind = "returned")
                  => inv.outcome.result.message = inv.formatted

\* one contact found: the singular
C16_Witness ==
    /\ inv.enriched /\ Len(inv.contacts) = 1 /\ inv.pc = "done"
    /\ inv.op = "sendMessage" /\ inv.outcome.kind = "returned" /\ inv.errorFrom = "none"
    /\ inv.formatted = "I found 1 professional matching \"real estate agents in Dubai\". Here are the results with verified contact information:"

\* C17: generateFollowUp called with a contactId that is not saved for this
\* user ends with a NOT_FOUND (404) outcome, not with a generic server error.
C17_ContactNotFoundIs404 ==
    (inv.op = "generateFollowUp" /\ inv.pc = "done"
       /\ FindContact(saved, inv.userId, inv.contactId) = {}) =>
        inv.outcome.kind = "thrown" /\ inv.outcome.status = 404

\* C18: every interpretation result handed to the enrichment carries a
\* targetProfiles list of 1 to 3 entries, so that an invocation issues at most
\* 3 provider sub-queries.
C18_OneToThreeProfiles ==
    inv.aiResult.type = "object" =>
        /\ inv.aiResult.targetProfiles.present
        /\ Len(inv.aiResult.targetProfiles.items) \in 1..3
        /\ inv.subQueries <= 3

\* The contacts attached to the assistant turns of a transcript, counted.
RECURSIVE AttachedContacts(_)
AttachedContacts(messages) ==
    IF messages = <<>> THEN 0
    ELSE (IF Head(messages).role = "assistant" THEN Len(Head(messages).contacts) ELSE 0)
         + AttachedContacts(Tail(messages))

\* C19: in every conversation state contactCount equals the number of contacts
\* attached to the assistant turns of the transcript (0 at creation, the
\* contacts of each successful turn, none for an error turn), and it never
\* decreases.
C19_ContactCountIsSum ==
    /\ [](/\ \A c \in ConvIds : convs[c].exists =>
                convs[c].contactCount = AttachedContacts(convs[c].messages)
          /\ (inv.op = "sendMessage" /\ SendLoaded) =>
                /\ inv.doc.contactCount = AttachedContacts(inv.doc.messages)
                /\ inv.doc.contactCount >= inv.pre.contactCount
                /\ (inv.pc = "done" /\ inv.outcome.kind = "returned") =>
                      inv.outcome.dto.contactCount = AttachedContacts(inv.outcome.dto.messages))
    /\ [][\A c \in ConvIds : (convs[c].exists /\ convs'[c].exists) =>
                convs'[c].contactCount >= convs[c].contactCount]_vars

\* two successful turns, of one and of two contacts
C19_Witness ==
    LET conversation == convs[ConvId(1)]
    IN  /\ conversation.exists /\ Len(conversation.messages) = 5
        /\ Len(conversation.messages[3].contacts) = 1
        /\ Len(conversation.messages[5].contacts) = 2
        /\ conversation.contactCount = 3

\* C20: normalizing the same raw profile again yields the identical Contact
\* record when the profile carries a provider id (and a record that differs in
\* the synthesized id alone when it carries none), and the normalizer touches
\* no state outside its argument.
C20_NormalizeIsIdempotent ==
    inv.op = "normalize" =>
        LET p == inv.responses[1].profiles.items[1]
            n == Len(inv.contacts)
        IN  /\ n = Len(inv.entropy)
            /\ p.id # NoScore => \A i, j \in 1..n : inv.contacts[i] = inv.contacts[j]
            /\ \A i, j \in 1..n :
                 [inv.contacts[i] EXCEPT !.id = ""] = [inv.contacts[j] EXCEPT !.id = ""]
            /\ p \in RawProfiles
            /\ history = <<>> /\ saved = {}
            /\ \A u \in Users : apiCalls[u] = 0
            /\ \A c \in CallerConvIds : ~convs[c].exists

\* the same profile, id 0, normalized at another time with another random draw
C20_Witness ==
    /\ inv.op = "normalize" /\ Len(inv.contacts) = 2
    /\ inv.responses[1].profiles.items[1] = Raw3
    /\ inv.entropy[1][1] # inv.entropy[2][1] /\ inv.entropy[1][2] # inv.entropy[2][2]
    /\ inv.contacts[1] = inv.contacts[2] /\ inv.contacts[1].id = "0"

\* The assistant turn the catch of sendMessage appends.
IsErrorTurn(m) ==
    m.role = "assistant" /\ StartsWith(m.content, "I encountered an issue")

\* C21: in a sendMessage invocation the error turn is appended only on a failure
\* of the interpretation or of the enrichment; it is never appended after the
\* success assistant turn of the same invocation.
C21_ErrorTurnOnlyBeforeSuccessTurn ==
    (SendLoaded /\ inv.pc = "catchsave") =>
        LET n == Len(inv.pre.messages)
        IN  /\ inv.errorFrom \in {"interpret", "enrich"}
            /\ ~inv.enriched
            /\ Len(inv.doc.messages) = n + 2
            /\ IsErrorTurn(inv.doc.messages[n + 2])

\* C22: within one pipeline invocation the stages run in strict sequence. The
\* user turn is appended before the interpretation call is issued; no
\* enrichment sub-query is issued before the interpretation call has returned
\* successfully, and an interpretation failure yields none; the composer runs
\* only after the enrichment has returned, with every sub-query answered.
C22_StagesInSequence ==
    PipelineInvocation =>
        LET n == Len(inv.pre.messages)
        IN  /\ inv.pc \in {"increment", "interpret"} =>
                  /\ inv.aiCalls = 0 /\ inv.subQueries = 0
                  /\ ~inv.enriched /\ inv.formatted = ""
            /\ (inv.op = "sendMessage" /\ inv.pc \in {"increment", "interpret"}) =>
                  inv.doc.messages = Append(inv.pre.messages, UserMessage(inv.message))
            /\ (inv.op = "sendMessage" /\ inv.aiCalls > 0) =>
                  /\ Len(inv.doc.messages) >= n + 1
                  /\ inv.doc.messages[n + 1] = UserMessage(inv.message)
            /\ (inv.subQueries > 0 \/ inv.pc \in {"subquery", "reenter"}) =>
                  /\ inv.aiCalls = 1 /\ inv.errorFrom # "interpret"
                  /\ inv.aiResult.type = "object" \/ inv.svc = "legacy"
            /\ inv.errorFrom = "interpret" =>
                  /\ inv.aiCalls = 1 /\ inv.subQueries = 0
                  /\ ~inv.enriched /\ inv.contacts = <<>> /\ inv.formatted = ""
            /\ inv.pc \in {"subquery", "reenter"} => ~inv.enriched /\ inv.formatted = ""
            /\ inv.enriched =>
                  /\ inv.aiCalls = 1 /\ inv.aiResult.type = "object"
                  /\ inv.pc \notin {"increment", "interpret", "subquery", "reenter"}
                  /\ rocketreachApiKey # "" =>
                        inv.subQueries = Len(inv.aiResult.targetProfiles.items)
                  /\ inv.formatted = formatResults(inv.svc, inv.aiResult, inv.contacts)

\* a turn interpreted, enriched by two sub-queries, composed and saved
C22_Witness ==
    /\ SendSettled /\ inv.outcome.kind = "returned" /\ inv.errorFrom = "none"
    /\ inv.aiCalls = 1 /\ inv.subQueries = 2 /\ inv.enriched
    /\ inv.responses[1].kind = "ok" /\ inv.responses[2].kind = "ok"

\* The pipeline of the invocation has been started: the usage increment that
\* precedes it was accepted.
PipelineStarted ==
    PipelineInvocation /\ inv.pc # "increment" /\ inv.errorFrom # "increment"

\* C23: a pipeline invocation issues exactly one interpretation call. A failed
\* attempt (provider error, timeout, unparsable output) is not tried again: it
\* leaves as the interpretation error, no enrichment and no composition follow,
\* and the turn ends with that error (as the error turn of sendMessage, as the
\* 500 of searchContacts).
C23_OneInterpretationCall ==
    PipelineInvocation =>
        /\ inv.aiCalls <= 1
        /\ ~PipelineStarted => inv.aiCalls = 0
        /\ inv.pc = "interpret" => inv.aiCalls = 0
        /\ (PipelineStarted /\ inv.pc # "interpret") => inv.aiCalls = 1
        /\ inv.errorFrom = "interpret" =>
              /\ inv.aiCalls = 1 /\ inv.subQueries = 0 /\ inv.reinvocations = 0
              /\ ~inv.enriched /\ inv.historyWrites = 0
              /\ StartsWith(inv.error, "Failed to parse query with AI")
                 \/ inv.error = TypeErrorNull
              /\ inv.op = "sendMessage" =>
                    /\ inv.pc \in {"catchsave", "done"}
                    /\ inv.doc.messages[Len(inv.doc.messages)] = ErrorMessage(inv.error)
              /\ inv.op = "searchContacts" =>
                    /\ inv.pc = "done"
                    /\ inv.outcome = Thrown(500, "Search failed: " \o inv.error)

\* a single-shot search whose one interpretation call timed out
C23_Witness ==
    /\ inv.op = "searchContacts" /\ inv.pc = "done" /\ inv.errorFrom = "interpret"
    /\ inv.aiCalls = 1 /\ Contains(inv.error, "timeout of 30000ms exceeded")
    /\ inv.outcome.kind = "thrown"

\* The pipeline invocation ended in success: nothing failed, the result is returned.
PipelineSucceeded ==
    PipelineDone /\ inv.errorFrom = "none" /\ inv.outcome.kind = "returned"

\* C24: a successful pipeline invocation has stored one history record whose
\* userId is the caller, whose query is the raw message text and whose
\* resultCount is the number of contacts returned: the contacts of the assistant
\* turn in sendMessage, totalResults and contacts.length in searchContacts; 0 for
\* a search without results.
C24_HistoryRecordFields ==
    PipelineSucceeded =>
        LET record == history[Len(history)]
        IN  /\ Len(history) = Len(inv.preHistory) + 1
            /\ SubSeq(history, 1, Len(inv.preHistory)) = inv.preHistory
            /\ record.userId = inv.userId
            /\ record.query = inv.message
            /\ record.resultCount = Len(inv.contacts)
            /\ inv.op = "sendMessage" =>
                  LET stored == convs[inv.convId].messages
                      returned == inv.outcome.dto.messages
                  IN  /\ stored[Len(stored)].role = "assistant"
                      /\ record.resultCount = Len(stored[Len(stored)].contacts)
                      /\ record.resultCount = Len(returned[Len(returned)].contacts)
            /\ inv.op = "searchContacts" =>
                  /\ record.resultCount = inv.outcome.result.totalResults
                  /\ record.resultCount = Len(inv.outcome.result.contacts)

\* a turn whose search found nothing, recorded with resultCount 0
C24_Witness ==
    /\ PipelineSucceeded /\ inv.op = "sendMessage" /\ Len(history) = 1
    /\ inv.contacts = <<>> /\ history[1].resultCount = 0
    /\ history[1].query = LongMessage /\ history[1].userId = inv.userId

IsPrefix(s, t) == Len(s) <= Len(t) /\ SubSeq(t, 1, Len(s)) = s

\* A transcript as the code may leave it: the welcome message first, and every
\* user turn without contacts and without suggested actions.
WellFormedTranscript(messages) ==
    /\ Len(messages) >= 1 /\ messages[1] = WelcomeMessage
    /\ \A i \in 1..Len(messages) :
         messages[i].role = "user" =>
             messages[i].contacts = <<>> /\ messages[i].suggestedActions = <<>>

\* C25: the transcript is append-only. For every sendMessage the transcript
\* before the call is a prefix of the transcript being worked on, of the stored
\* one and of the returned one; no step changes, reorders or removes a stored
\* message; user turns have empty contacts and suggestedActions; the first
\* entry is the seeded assistant welcome message.
C25_TranscriptAppendOnly ==
    /\ [](/\ \A c \in ConvIds : convs[c].exists => WellFormedTranscript(convs[c].messages)
          /\ SendLoaded =>
                /\ WellFormedTranscript(inv.doc.messages)
                /\ IsPrefix(inv.pre.messages, inv.doc.messages)
                /\ IsPrefix(inv.pre.messages, convs[inv.convId].messages)
                /\ Len(inv.doc.messages) > Len(inv.pre.messages)
                /\ inv.doc.messages[Len(inv.pre.messages) + 1].role = "user"
                /\ (inv.pc = "done" /\ inv.outcome.kind = "returned") =>
                      /\ IsPrefix(inv.pre.messages, inv.outcome.dto.messages)
                      /\ convs[inv.convId].messages = inv.outcome.dto.messages)
    /\ [][\A c \in ConvIds : (convs[c].exists /\ convs'[c].exists) =>
                IsPrefix(convs[c].messages, convs'[c].messages)]_vars

\* the second turn of a conversation, saved behind the first
C25_Witness ==
    /\ SendSettled /\ inv.outcome.kind = "returned"
    /\ Len(inv.pre.messages) = 3 /\ Len(convs[inv.convId].messages) = 5
    /\ convs[inv.convId].messages[2].role = "user"
    /\ convs[inv.convId].messages[4].role = "user"
    /\ convs[inv.convId].messages[4].content # convs[inv.convId].messages[2].content

\* C26: extractStringArray maps each source entry on its own: a plain string is
\* kept as it is; an object yields the first non-empty of its email, number,
\* value, raw_number fields, in that order; anything else is dropped. The output
\* keeps the source order and holds no empty string; no list gives the empty list.
C26_ExtractFirstNonEmptyField ==
    inv.op = "normalize" =>
        LET p == inv.responses[1].profiles.items[1]
            NonEmpty(v) == v # Undefined /\ v # ""
            Yield(item) ==
                IF item.t = "string" THEN item.s
                ELSE IF item.t = "object" THEN
                    IF NonEmpty(item.email) THEN item.email
                    ELSE IF NonEmpty(item.number) THEN item.number
                    ELSE IF NonEmpty(item.value) THEN item.value
                    ELSE IF NonEmpty(item.raw_number) THEN item.raw_number
                    ELSE Undefined
                ELSE Undefined
            Claimed(data) ==
                IF ~data.present THEN <<>>
                ELSE LET y == [i \in 1..Len(data.items) |-> Yield(data.items[i])]
                     IN  SeqFilter(y, [i \in 1..Len(y) |-> NonEmpty(y[i])])
        IN  \A i \in 1..Len(inv.contacts) :
              /\ inv.contacts[i].emails
                   = Claimed(ListOr(p.emails, ListOr(p.telesign_emails, ListOf(<<>>))))
              /\ inv.contacts[i].phones
                   = Claimed(ListOr(p.phones, ListOr(p.telesign_phones, ListOf(<<>>))))
              /\ \A k \in 1..Len(inv.contacts[i].phones) : inv.contacts[i].phones[k] # ""

\* C27: the summary of a Contact is composed of that Contact's own fields: the
\* title ("Professional" when it is empty), then " at {company}", " in
\* {location}" and " | {industry}", each present iff the field is not empty;
\* the location is the Contact's resolved one (the trimmed explicit location,
\* else city, region and country joined by ", ").
C27_SummaryOfContactFields ==
    inv.op = "normalize" =>
        \A i \in 1..Len(inv.contacts) :
            LET c == inv.contacts[i]
            IN  c.summary =
                    (IF c.title = "" THEN "Professional" ELSE c.title)
                    \o (IF c.company = "" THEN "" ELSE " at " \o c.company)
                    \o (IF c.location = "" THEN "" ELSE " in " \o c.location)
                    \o (IF c.industry = "" THEN "" ELSE " | " \o c.industry)

\* C28: a normalized Contact's relevanceScore is 90 only when the provider
\* record carries no relevance; a relevance the record does carry, 0 included,
\* is passed through unchanged.
C28_RelevancePassedThrough ==
    inv.op = "normalize" =>
        LET p == inv.responses[1].profiles.items[1]
        IN  \A i \in 1..Len(inv.contacts) :
              inv.contacts[i].relevanceScore
                  = (IF p.relevance = NoScore THEN 90 ELSE p.relevance)

\* C29: the interpretation input of a sendMessage carries a conversation
\* context only when more than one turn precedes the current user message; it
\* is then the context (at most the 6 most recent turns, in transcript order,
\* each cut to 200 characters) followed by the query; otherwise it is the bare
\* query, as for the first message of a fresh conversation, which only the
\* welcome message precedes.
C29_ContextOnlyAfterPriorTurns ==
    (SendLoaded /\ inv.aiCalls > 0) =>
        LET prior == inv.pre.messages
        IN  IF Len(prior) > 1
            THEN /\ StartsWith(inv.input, "Conversation context:\n")
                 /\ EndsWith(inv.input, "\n\nCurrent user query: " \o inv.message)
                 /\ \E k \in 1..6 :
                      LET recent == SubSeq(inv.pre.messages \o <<UserMessage(inv.message)>>,
                                           Len(prior) + 2 - k, Len(prior) + 1)
                      IN  /\ k <= Len(prior) + 1
                          /\ inv.input = "Conversation context:\n"
                               \o Join([i \in 1..k |-> recent[i].role \o ": "
                                          \o Substring0(recent[i].content, 200)], "\n")
                               \o "\n\nCurrent user query: " \o inv.message
            ELSE inv.input = inv.message

\* Two sendMessage invocations on the same conversation that both loaded it
\* before either saved, and that both have returned.
InterleavedSends ==
    /\ inv.op = "sendMessage" /\ other.op = "sendMessage"
    /\ inv.convId = other.convId
    /\ inv.pre.exists /\ inv.pre.userId = inv.userId
    /\ other.pre.exists /\ other.pre.userId = other.userId
    /\ inv.pre.messages = other.pre.messages
    /\ inv.pc = "done" /\ other.pc = "done"
    /\ inv.outcome.kind = "returned" /\ other.outcome.kind = "returned"

\* The entries an invocation has appended to its copy of the transcript.
AppendedBy(r) == SubSeq(r.doc.messages, Len(r.pre.messages) + 1, Len(r.doc.messages))

\* C30: after two interleaved sendMessage invocations on one conversation have
\* both completed, the stored conversation holds the turns of both, behind the
\* transcript they loaded, and its contactCount is the number of contacts
\* attached to its assistant turns: no increment is lost.
C30_NoLostUpdate ==
    InterleavedSends =>
        LET stored == convs[inv.convId]
        IN  /\ IsPrefix(inv.pre.messages, stored.messages)
            /\ \/ stored.messages = inv.pre.messages \o AppendedBy(inv) \o AppendedBy(other)
               \/ stored.messages = inv.pre.messages \o AppendedBy(other) \o AppendedBy(inv)
            /\ stored.contactCount = AttachedContacts(stored.messages)

====
